---- MODULE Spec2Model ----
(***************************************************************************)
(* Model of the swig template functions of the site generator              *)
(* (src/libs/swig_functions.js): the content query engine (getItem,        *)
(* getItems, get), its query cache, and the pagination state.              *)
(*                                                                         *)
(* JavaScript values are represented as tagged tuples:                     *)
(*   <<"undefined">>, <<"null">>, <<"string", chars>>, <<"array", elems>>, *)
(*   <<"boolean", b>>, <<"number", n>>                                     *)
(* where chars is a sequence of one-character strings, so that split,      *)
(* join and indexOf are computed on the characters.  A date string is      *)
(* <<"date", ts>>: a string that Date.parse maps to the timestamp ts.      *)
(***************************************************************************)
EXTENDS Integers, Sequences, FiniteSets, TLC

VARIABLES
    data,               \* this.data: the content store
    typeInfo,           \* this.typeInfo: the type-metadata table
    cachedData,         \* this.cachedData: the query cache
    settings,           \* this.settings: the settings table
    paginate,           \* this.paginate: pagination active
    curPage,            \* this.curPage
    maxPage,            \* this.maxPage
    pageUrl,            \* this.pageUrl: the page url segment
    paginationBaseUrl,  \* this.paginationBaseUrl
    CURRENT_URL,        \* this.CURRENT_URL
    now,                \* the clock read by Date.now(), in ms
    op,                 \* the last call made on the context, with its arguments
    ret,                \* what that call returned (or the error it raised)
    lastRet,            \* history: what get(...) last returned per argument list since setData
    pc,                 \* position of the rendering loop
    loopArgs,           \* the data length and perPage the rendering loop's template passes
    rendered,           \* history: number of pages the rendering loop has rendered
    renders             \* the page renders in progress: their position, url and outcome

queryVars == <<data, typeInfo, cachedData>>
pageVars  == <<paginate, curPage, maxPage, pageUrl, paginationBaseUrl, CURRENT_URL>>
loopVars  == <<pc, loopArgs, rendered, renders>>
vars == <<data, typeInfo, cachedData, settings, paginate, curPage, maxPage, pageUrl,
          paginationBaseUrl, CURRENT_URL, now, op, ret, lastRet, pc, loopArgs, rendered,
          renders>>

----------------------------------------------------------------------------
(* Bounds of the model *)

MaxLen == 12        \* longest sequence handed to paginate
MaxPerPage == 5     \* largest perPage handed to paginate
MaxCurPage == 4     \* increasePage is not explored beyond this page
MaxNow == 1         \* the clock is not advanced beyond this many ms
MaxPageNum == 11    \* largest page number handed to getPageUrl
MaxRenderLen == 2   \* longest sequence and largest perPage of a page render

----------------------------------------------------------------------------
(* JavaScript values *)

EmptyMap == [x \in {} |-> x]

Undefined == <<"undefined">>
Null == <<"null">>
Str(chars) == <<"string", chars>>
Arr(elems) == <<"array", elems>>
DateStr(ts) == <<"date", ts>>
Bool(b) == <<"boolean", b>>
Num(n) == <<"number", n>>

IsArray(v) == v[1] = "array"

\* !v for the values above: undefined, null and the empty string are falsy
Falsy(v) == v = Undefined \/ v = Null \/ v = Str(<<>>)

\* the characters of a string value (a date string has characters that hold no space)
Chars(v) == IF v[1] = "string" THEN v[2] ELSE <<"d">>

Min(a, b) == IF a < b THEN a ELSE b

\* Math.ceil(n / d) for n >= 0, d >= 1
Ceil(n, d) == (n + d - 1) \div d

----------------------------------------------------------------------------
(* Results of calls *)

Raise(err) == <<"raise", err>>
Returned(v) == <<"return", v>>
IsRaise(r) == r[1] = "raise"

PaginationConflict == "Can only paginate one set of data in a template."

----------------------------------------------------------------------------
(* Pagination *)

PageDefault == Str(<<"p", "a", "g", "e", "-">>)
Urls == {Str(<<"/">>), Str(<<"/", "a", "/">>)}
PageNames == {Undefined, Str(<<"p", "/">>)}
DataOf(n) == [i \in 1..n |-> i]

\* utils.slice(data, limit, offset): limit elements of data from offset on,
\* fewer when data ends before that, none when offset is past the end
Slice(d, limit, offset) ==
    IF offset >= Len(d) THEN <<>>
    ELSE SubSeq(d, offset + 1, Min(offset + limit, Len(d)))

\* the guard of paginate
PaginateGuardMutant == paginate = TRUE
PaginateGuard == curPage = 1 /\ paginate = TRUE

\* the offset of the slice paginate takes
PageOffsetMutant(perPage) == perPage * curPage
PageOffset(perPage) == perPage * (curPage - 1)

\* the number of pages paginate computes
PageCount(d, perPage) == Ceil(Len(d), perPage)

\* the base url paginate leaves: captured from CURRENT_URL while none is held
CapturedBaseUrlMutant == CURRENT_URL
CapturedBaseUrl == IF paginationBaseUrl = Null THEN CURRENT_URL ELSE paginationBaseUrl

\* pageName || self.pageUrl
PageUrlAfterMutant(pageName) == IF Falsy(pageName) THEN PageDefault ELSE pageName
PageUrlAfter(pageName) == IF Falsy(pageName) THEN pageUrl ELSE pageName

paginateCall(d, perPage, pageName) ==
    /\ op' = [name |-> "paginate", data |-> d, perPage |-> perPage, pageName |-> pageName]
    /\ IF PaginateGuard
       THEN /\ ret' = Raise(PaginationConflict)
            /\ UNCHANGED pageVars
       ELSE /\ ret' = Returned(Arr(Slice(d, perPage, PageOffset(perPage))))
            /\ paginate' = TRUE
            /\ paginationBaseUrl' = CapturedBaseUrl
            /\ pageUrl' = PageUrlAfter(pageName)
            /\ maxPage' = PageCount(d, perPage)
            /\ UNCHANGED <<curPage, CURRENT_URL>>
    /\ UNCHANGED <<queryVars, now, lastRet, settings>>

getCurPage ==
    /\ op' = [name |-> "getCurPage"]
    /\ ret' = Returned(Num(curPage))
    /\ UNCHANGED <<queryVars, pageVars, now, lastRet, settings>>

getMaxPage ==
    /\ op' = [name |-> "getMaxPage"]
    /\ ret' = Returned(Num(maxPage))
    /\ UNCHANGED <<queryVars, pageVars, now, lastRet, settings>>

getCurrentUrl ==
    /\ op' = [name |-> "getCurrentUrl"]
    /\ ret' = Returned(CURRENT_URL)
    /\ UNCHANGED <<queryVars, pageVars, now, lastRet, settings>>

ShouldPaginateMutant == curPage < maxPage
ShouldPaginate == curPage <= maxPage

shouldPaginate ==
    /\ op' = [name |-> "shouldPaginate"]
    /\ ret' = Returned(Bool(ShouldPaginate))
    /\ UNCHANGED <<queryVars, pageVars, now, lastRet, settings>>

\* init without the reset of paginationBaseUrl
initKeepsBaseUrl ==
    /\ op' = [name |-> "init"]
    /\ ret' = Returned(Undefined)
    /\ paginate' = FALSE
    /\ curPage' = 1
    /\ pageUrl' = PageDefault
    /\ maxPage' = -1
    /\ UNCHANGED <<paginationBaseUrl, CURRENT_URL, queryVars, now, lastRet, settings>>

\* init without the reset of paginate
initKeepsActive ==
    /\ op' = [name |-> "init"]
    /\ ret' = Returned(Undefined)
    /\ curPage' = 1
    /\ pageUrl' = PageDefault
    /\ maxPage' = -1
    /\ paginationBaseUrl' = Null
    /\ UNCHANGED <<paginate, CURRENT_URL, queryVars, now, lastRet, settings>>

init ==
    /\ op' = [name |-> "init"]
    /\ ret' = Returned(Undefined)
    /\ paginate' = FALSE
    /\ curPage' = 1
    /\ pageUrl' = PageDefault
    /\ maxPage' = -1
    /\ paginationBaseUrl' = Null
    /\ UNCHANGED <<CURRENT_URL, queryVars, now, lastRet, settings>>

\* increasePage that also clears the paginate flag
increasePageClears ==
    /\ op' = [name |-> "increasePage"]
    /\ ret' = Returned(Undefined)
    /\ curPage' = curPage + 1
    /\ paginate' = FALSE
    /\ UNCHANGED <<maxPage, pageUrl, paginationBaseUrl, CURRENT_URL,
                   queryVars, now, lastRet, settings>>

increasePage ==
    /\ op' = [name |-> "increasePage"]
    /\ ret' = Returned(Undefined)
    /\ curPage' = curPage + 1
    /\ UNCHANGED <<paginate, maxPage, pageUrl, paginationBaseUrl, CURRENT_URL,
                   queryVars, now, lastRet, settings>>

\* self[key] = params[key] for one field of the context
Assigned(params, key, old) == IF key \in DOMAIN params THEN params[key] ELSE old

setParams(params) ==
    /\ op' = [name |-> "setParams", params |-> params]
    /\ ret' = Returned(Undefined)
    /\ data' = Assigned(params, "data", data)
    /\ typeInfo' = Assigned(params, "typeInfo", typeInfo)
    /\ cachedData' = Assigned(params, "cachedData", cachedData)
    /\ settings' = Assigned(params, "settings", settings)
    /\ paginate' = Assigned(params, "paginate", paginate)
    /\ curPage' = Assigned(params, "curPage", curPage)
    /\ maxPage' = Assigned(params, "maxPage", maxPage)
    /\ pageUrl' = Assigned(params, "pageUrl", pageUrl)
    /\ paginationBaseUrl' = Assigned(params, "paginationBaseUrl", paginationBaseUrl)
    /\ CURRENT_URL' = Assigned(params, "CURRENT_URL", CURRENT_URL)
    /\ UNCHANGED <<now, lastRet>>

\* the parameters the generator injects before a page render
UrlParams == {[CURRENT_URL |-> u] : u \in Urls}

\* the characters of a value concatenated to a string: null reads "null"
Concatenated(v) == IF v = Null THEN <<"n", "u", "l", "l">> ELSE Chars(v)

\* the decimal digits of a natural number
Digits == <<"0", "1", "2", "3", "4", "5", "6", "7", "8", "9">>
RECURSIVE NumStr(_)
NumStr(n) == IF n < 10 THEN <<Digits[n + 1]>> ELSE NumStr(n \div 10) \o <<Digits[(n % 10) + 1]>>

\* the url getPageUrl computes for a page number
PageUrlOfMutant(pageNum) ==
    Str(Concatenated(paginationBaseUrl) \o Chars(pageUrl) \o NumStr(pageNum) \o <<"/">>)
PageUrlOf(pageNum) ==
    IF pageNum = 1 THEN paginationBaseUrl
    ELSE Str(Concatenated(paginationBaseUrl) \o Chars(pageUrl) \o NumStr(pageNum) \o <<"/">>)

getPageUrl(pageNum) ==
    /\ op' = [name |-> "getPageUrl", pageNum |-> pageNum]
    /\ ret' = Returned(PageUrlOf(pageNum))
    /\ UNCHANGED <<queryVars, pageVars, now, lastRet, settings>>

\* the page numbers handed to getPageUrl
PageNums == 1..MaxPageNum

----------------------------------------------------------------------------
(* The content store and the type-metadata table *)

GraceMs == 60000    \* 1 * 60 * 1000: the forward grace window of publish_date

TA == <<"a">>
TB == <<"b">>
TS == <<"s">>
K1 == <<"1">>
K2 == <<"2">>
KU == <<"_", "x">>

\* the order in which the keys of a collection are iterated
KeyOrder == <<K1, K2, KU>>

\* an item as the content store supplies it: no _id, no _type
Item(publish_date) == [publish_date |-> publish_date, _id |-> Undefined, _type |-> Undefined]

NotADate == Str(<<"x">>)

\* Date.parse: the timestamp of a date string, NaN for anything else
NaN == [nan |-> TRUE, ts |-> 0]
DateParse(v) == IF v[1] = "date" THEN [nan |-> FALSE, ts |-> v[2]] ELSE NaN

\* pdate > x, which is false when pdate is NaN
Gt(pdate, x) == ~pdate.nan /\ pdate.ts > x

Store1 ==
    (TA :> (K1 :> Item(DateStr(GraceMs)) @@ K2 :> Item(DateStr(GraceMs + 1))
            @@ KU :> Item(DateStr(0))))
    @@ (TB :> (K1 :> Item(DateStr(GraceMs - 1)) @@ K2 :> Item(Undefined)))
    @@ (TS :> (K1 :> Item(Undefined)))

Store2 ==
    (TA :> (K1 :> Item(NotADate) @@ K2 :> Item(Str(<<>>))))
    @@ (TS :> (K1 :> Item(DateStr(GraceMs + 1))))

Stores == {Store1, Store2}

TypeEntry(name, oneOff) == [name |-> Str(name), oneOff |-> oneOff]

TypeInfo1 ==
    (TA :> TypeEntry(<<"A">>, FALSE)) @@ (TB :> TypeEntry(<<"B">>, FALSE))
    @@ (TS :> TypeEntry(<<"S">>, TRUE))

TypeInfo2 == (TA :> TypeEntry(<<"A">>, FALSE)) @@ (TS :> TypeEntry(<<"S">>, FALSE))

TypeInfos == {TypeInfo1, TypeInfo2}

setDataClearedMutant == cachedData
setDataCleared == EmptyMap

\* setData that also resets the current page
setDataResetsPage(d) ==
    /\ op' = [name |-> "setData", data |-> d, cached |-> DOMAIN cachedData]
    /\ ret' = Returned(Undefined)
    /\ cachedData' = setDataCleared
    /\ data' = d
    /\ lastRet' = EmptyMap
    /\ curPage' = 1
    /\ UNCHANGED <<typeInfo, paginate, maxPage, pageUrl, paginationBaseUrl, CURRENT_URL,
                   now, settings>>

setData(d) ==
    /\ op' = [name |-> "setData", data |-> d, cached |-> DOMAIN cachedData]
    /\ ret' = Returned(Undefined)
    /\ cachedData' = setDataCleared
    /\ data' = d
    /\ lastRet' = EmptyMap
    /\ UNCHANGED <<typeInfo, pageVars, now, settings>>

setTypeInfo(ti) ==
    /\ op' = [name |-> "setTypeInfo", typeInfo |-> ti]
    /\ ret' = Returned(Undefined)
    /\ typeInfo' = ti
    /\ UNCHANGED <<data, cachedData, pageVars, now, lastRet, settings>>

\* time passes
Tick ==
    /\ now < MaxNow
    /\ op' = [name |-> "tick"]
    /\ ret' = Returned(Undefined)
    /\ now' = now + 1
    /\ UNCHANGED <<queryVars, pageVars, lastRet, settings>>

----------------------------------------------------------------------------
(* getItem and getItems *)

TypeError == "TypeError"

\* a returned item is the store's own object for (type, key); {} is a new object
ItemRef(type, key) == <<"item", type, key>>
EmptyItem == <<"object", <<>>>>

\* str.split(" ", 2): the pieces between the spaces, at most the first two
RECURSIVE SplitAll(_)
SplitAll(chars) ==
    IF \A i \in 1..Len(chars) : chars[i] # " " THEN <<chars>>
    ELSE LET i == CHOOSE j \in 1..Len(chars) :
                      chars[j] = " " /\ \A h \in 1..(j - 1) : chars[h] # " "
         IN  <<SubSeq(chars, 1, i - 1)>> \o SplitAll(SubSeq(chars, i + 1, Len(chars)))

Split2(chars) == LET all == SplitAll(chars) IN SubSeq(all, 1, Min(2, Len(all)))

\* the publish-date test of getItem and of get: TRUE when the item is kept
Published(item) ==
    /\ ~Falsy(item.publish_date)
    /\ ~Gt(DateParse(item.publish_date), now + GraceMs)

\* getItem once type and key are strings; d is the store, the result holds what
\* is returned and the store as the call leaves it
GetItemLookup(type, key, d) ==
    IF type \notin DOMAIN typeInfo THEN [ret |-> Returned(EmptyItem), data |-> d]
    ELSE IF type \notin DOMAIN d THEN [ret |-> Raise(TypeError), data |-> d]
    ELSE IF key \notin DOMAIN d[type] THEN [ret |-> Returned(EmptyItem), data |-> d]
    ELSE IF ~typeInfo[type].oneOff /\ ~Published(d[type][key])
         THEN [ret |-> Returned(EmptyItem), data |-> d]
    ELSE [ret |-> Returned(ItemRef(type, key)),
          data |-> [d EXCEPT ![type][key]._type = Str(type)]]

getItem(type, key, d) ==
    IF Falsy(type) THEN [ret |-> Returned(EmptyItem), data |-> d]
    ELSE IF Falsy(key)
         THEN IF IsArray(type) /\ Len(type[2]) = 0
              THEN [ret |-> Returned(EmptyItem), data |-> d]
              ELSE LET rel == IF IsArray(type) THEN type[2][1] ELSE type
                       parts == Split2(Chars(rel))
                   IN  IF Len(parts) # 2
                       THEN [ret |-> Returned(EmptyItem), data |-> d]
                       ELSE GetItemLookup(parts[1], parts[2], d)
    ELSE GetItemLookup(Chars(type), Chars(key), d)

getItemCall(type, key) ==
    LET r == getItem(type, key, data)
    IN  /\ op' = [name |-> "getItem", type |-> type, key |-> key]
        /\ ret' = r.ret
        /\ data' = r.data
        /\ UNCHANGED <<typeInfo, cachedData, pageVars, now, lastRet, settings>>

\* the forEach of getItems over arr from index i on; items holds what was pushed
RECURSIVE GetItemsFrom(_, _, _, _)
GetItemsFrom(arr, i, items, d) ==
    IF i > Len(arr) THEN [ret |-> Returned(Arr(items)), data |-> d]
    ELSE LET obj == getItem(arr[i], Undefined, d)
         IN  IF IsRaise(obj.ret) THEN obj
             ELSE IF obj.ret = Returned(EmptyItem)
                  THEN GetItemsFrom(arr, i + 1, items, obj.data)
             ELSE LET again == getItem(arr[i], Undefined, obj.data)
                  IN  IF IsRaise(again.ret) THEN again
                      ELSE GetItemsFrom(arr, i + 1, Append(items, again.ret[2]), again.data)

getItems(arr, d) ==
    IF Falsy(arr) THEN [ret |-> Returned(Arr(<<>>)), data |-> d]
    ELSE GetItemsFrom(arr[2], 1, <<>>, d)

getItemsCall(arr) ==
    LET r == getItems(arr, data)
    IN  /\ op' = [name |-> "getItems", arr |-> arr]
        /\ ret' = r.ret
        /\ data' = r.data
        /\ UNCHANGED <<typeInfo, cachedData, pageVars, now, lastRet, settings>>

\* "type key"
Rel(type, key) == Str(type \o <<" ">> \o key)

GetItemArgs ==
    {<<Str(t), Str(k)>> : t \in {TA, TB, TS}, k \in {K1, K2}}
    \cup {<<Rel(TA, K1), Undefined>>, <<Str(TA), Undefined>>,
          <<Str(TA \o <<" ">> \o K2 \o <<" ">> \o K1), Undefined>>,
          <<Arr(<<>>), Undefined>>, <<Arr(<<Rel(TA, K2)>>), Undefined>>,
          <<Undefined, Undefined>>, <<Str(TA), Str(<<"9">>)>>}

GetItemsArgs ==
    {Undefined, Arr(<<>>), Arr(<<Rel(TA, K1), Rel(TA, K2), Rel(TA, K1)>>),
     Arr(<<Str(TA), Rel(TS, K1)>>), Arr(<<Rel(TB, K1)>>)}

----------------------------------------------------------------------------
(* get: the combined, filtered and cached query *)

\* the value of a oneOff type: the store's own object for that type
Obj(type) == <<"object", type>>

\* names.join(',')
RECURSIVE Join(_)
Join(names) ==
    IF Len(names) = 0 THEN <<>>
    ELSE IF Len(names) = 1 THEN names[1]
    ELSE names[1] \o <<",">> \o Join(Tail(names))

\* the smallest of a set of type slugs in the order a < b < s
LeastSlug(S) == CHOOSE x \in S : \A y \in S : \E i, j \in 1..3 :
                    <<TA, TB, TS>>[i] = x /\ <<TA, TB, TS>>[j] = y /\ i <= j
RECURSIVE SortedSlugs(_)
SortedSlugs(S) ==
    IF S = {} THEN <<>> ELSE <<LeastSlug(S)>> \o SortedSlugs(S \ {LeastSlug(S)})

\* the key of the cache entry of an argument list
CacheKeyMutant(names) == Join(SortedSlugs({names[i] : i \in 1..Len(names)}))
CacheKey(names) == Join(names)

\* whether the cache holds a (truthy) entry: every entry is an array or an object
CacheHit(key) == key \in DOMAIN cachedData

\* key.indexOf('_') === 0
OmittedKey(key) == Len(key) > 0 /\ key[1] = "_"

\* _.omit and _.map: every kept entry of the collection gets its _id and _type
Annotated(coll, name) ==
    [k \in DOMAIN coll |->
        IF OmittedKey(k) THEN coll[k]
        ELSE [coll[k] EXCEPT !._id = Str(k), !._type = Str(name)]]

\* the publish-date filter of get
KeptByFilterMutant(item) ==
    /\ ~Falsy(item.publish_date)
    /\ ~Gt(DateParse(item.publish_date), now + GraceMs - 1)
KeptByFilter(item) ==
    /\ ~Falsy(item.publish_date)
    /\ ~Gt(DateParse(item.publish_date), now + GraceMs)

\* the items of the collection of name that get appends, as references
FilteredRefs(name, d) ==
    IF name \notin DOMAIN d THEN <<>>
    ELSE LET Keep(k) == k \in DOMAIN d[name] /\ ~OmittedKey(k) /\ KeptByFilter(d[name][k])
             kept == SelectSeq(KeyOrder, Keep)
         IN  [j \in 1..Len(kept) |-> ItemRef(name, kept[j])]

\* whether name is handled as a oneOff type
IsOneOff(name) == name \in DOMAIN typeInfo /\ typeInfo[name].oneOff

\* the forEach of get over names from index i on; acc is the local variable data
RECURSIVE CombineFrom(_, _, _, _)
CombineFrom(names, i, acc, d) ==
    IF i > Len(names) THEN [ret |-> Returned(acc), data |-> d]
    ELSE LET name == names[i]
         IN  IF IsOneOff(name)
             THEN CombineFrom(names, i + 1,
                              IF name \in DOMAIN d THEN Obj(name) ELSE EmptyItem, d)
             ELSE LET d2 == IF name \in DOMAIN d
                            THEN [d EXCEPT ![name] = Annotated(d[name], name)]
                            ELSE d
                  IN  IF IsArray(acc)
                      THEN CombineFrom(names, i + 1,
                                       Arr(acc[2] \o FilteredRefs(name, d)), d2)
                      ELSE [ret |-> Raise(TypeError), data |-> d2]

getCombined(names) ==
    LET key == CacheKey(names)
        r == CombineFrom(names, 1, Arr(<<>>), data)
    IN  /\ op' = [name |-> "get", names |-> names]
        /\ IF CacheHit(key)
           THEN /\ ret' = Returned(cachedData[key])
                /\ UNCHANGED <<data, cachedData>>
           ELSE /\ ret' = r.ret
                /\ data' = r.data
                /\ cachedData' = IF IsRaise(r.ret) THEN cachedData
                                 ELSE (key :> r.ret[2]) @@ cachedData
        /\ lastRet' = (names :> ret') @@ lastRet
        /\ UNCHANGED <<typeInfo, pageVars, now, settings>>

GetArgs == {<<TA>>, <<TA, TB>>, <<TB, TA>>, <<TS>>, <<TS, TA>>, <<TA, TS>>}

----------------------------------------------------------------------------
(* getTypes, the settings table and random *)

\* the order in which the keys of the type-metadata table are iterated
TypeOrder == <<TA, TB, TS>>

RECURSIVE TypesFrom(_)
TypesFrom(i) ==
    IF i > Len(TypeOrder) THEN <<>>
    ELSE LET key == TypeOrder[i] IN
         IF key \in DOMAIN typeInfo /\ ~typeInfo[key].oneOff
         THEN <<[slug |-> Str(key), name |-> typeInfo[key].name]>> \o TypesFrom(i + 1)
         ELSE TypesFrom(i + 1)

getTypes ==
    /\ op' = [name |-> "getTypes"]
    /\ ret' = Returned(Arr(TypesFrom(1)))
    /\ UNCHANGED <<queryVars, pageVars, now, lastRet, settings>>

SiteName == <<"n">>
NoSetting == <<"m">>
Settings1 == [general |-> (SiteName :> Str(<<"L">>))]
Settings2 == [other |-> (SiteName :> Str(<<"L">>))]
SettingsTables == {Settings1, Settings2}
SettingKeys == {SiteName, NoSetting}

setSettings(st) ==
    /\ op' = [name |-> "setSettings", settings |-> st]
    /\ ret' = Returned(Undefined)
    /\ settings' = st
    /\ UNCHANGED <<queryVars, pageVars, now, lastRet>>

getSetting(key) ==
    /\ op' = [name |-> "getSetting", key |-> key]
    /\ ret' = Returned(IF "general" \notin DOMAIN settings THEN Null
                       ELSE IF key \in DOMAIN settings.general THEN settings.general[key]
                       ELSE Undefined)
    /\ UNCHANGED <<queryVars, pageVars, now, lastRet, settings>>

\* random: null unless handed an array; otherwise the element at an index
\* drawn by Math.random, which is undefined when the array is empty
randomElement(array) ==
    /\ op' = [name |-> "random", array |-> array]
    /\ IF Falsy(array) \/ ~IsArray(array)
       THEN ret' = Returned(Null)
       ELSE IF Len(array[2]) = 0
       THEN ret' = Returned(Undefined)
       ELSE \E index \in 1..Len(array[2]) : ret' = Returned(array[2][index])
    /\ UNCHANGED <<queryVars, pageVars, now, lastRet, settings>>

RandomArgs == {Undefined, Str(<<"x">>), Arr(<<>>), Arr(<<Str(<<"x">>), Str(<<"y">>)>>)}

----------------------------------------------------------------------------
(* The state after construction *)

\* the fields set by the constructor
InitContext ==
    /\ data = EmptyMap
    /\ typeInfo = EmptyMap
    /\ cachedData = EmptyMap
    /\ settings = EmptyMap
    /\ paginate = FALSE
    /\ curPage = 1
    /\ maxPage = -1
    /\ pageUrl = PageDefault
    /\ paginationBaseUrl = Null
    /\ CURRENT_URL = Str(<<"/">>)

\* nothing has been called yet
InitObserved ==
    /\ now = 0
    /\ op = [name |-> "new"]
    /\ ret = Returned(Undefined)
    /\ lastRet = EmptyMap

Init ==
    /\ InitContext
    /\ InitObserved
    /\ pc = "idle"
    /\ loopArgs = [n |-> 0, perPage |-> 1]
    /\ rendered = 0
    /\ renders = EmptyMap

----------------------------------------------------------------------------
(* The pagination functions called in any order *)

NextPage ==
    \/ init /\ UNCHANGED loopVars
    \/ curPage < MaxCurPage /\ increasePage /\ UNCHANGED loopVars
    \/ shouldPaginate /\ UNCHANGED loopVars
    \/ getCurPage /\ UNCHANGED loopVars
    \/ getMaxPage /\ UNCHANGED loopVars
    \/ getCurrentUrl /\ UNCHANGED loopVars
    \/ \E params \in UrlParams : setParams(params) /\ UNCHANGED loopVars
    \/ \E n \in 0..MaxLen, perPage \in 1..MaxPerPage, pageName \in PageNames :
           paginateCall(DataOf(n), perPage, pageName) /\ UNCHANGED loopVars

SpecPage == Init /\ [][NextPage]_vars

----------------------------------------------------------------------------
(* The pagination functions and getPageUrl called in any order *)

NextUrl ==
    \/ NextPage
    \/ \E pageNum \in PageNums : getPageUrl(pageNum) /\ UNCHANGED loopVars

SpecUrl == Init /\ [][NextUrl]_vars

----------------------------------------------------------------------------
(* getItem and getItems called in any order while builds replace the store   *)
(* and the type metadata and time passes                                      *)

NextItem ==
    \/ \E d \in Stores : setData(d) /\ UNCHANGED loopVars
    \/ \E ti \in TypeInfos : setTypeInfo(ti) /\ UNCHANGED loopVars
    \/ Tick /\ UNCHANGED loopVars
    \/ \E a \in GetItemArgs : getItemCall(a[1], a[2]) /\ UNCHANGED loopVars
    \/ \E arr \in GetItemsArgs : getItemsCall(arr) /\ UNCHANGED loopVars

SpecItem == Init /\ [][NextItem]_vars

----------------------------------------------------------------------------
(* get called in any order while builds replace the store and the type       *)
(* metadata, pages are initialised and time passes                            *)

NextGet ==
    \/ \E d \in Stores : setData(d) /\ UNCHANGED loopVars
    \/ \E ti \in TypeInfos : setTypeInfo(ti) /\ UNCHANGED loopVars
    \/ Tick /\ UNCHANGED loopVars
    \/ init /\ UNCHANGED loopVars
    \/ \E names \in GetArgs : getCombined(names) /\ UNCHANGED loopVars

SpecGet == Init /\ [][NextGet]_vars

----------------------------------------------------------------------------
(* The query functions called in any order while builds replace the store    *)
(* and the type metadata, with the clock held fixed                          *)

NextQuery ==
    \/ \E d \in Stores : setData(d) /\ UNCHANGED loopVars
    \/ \E ti \in TypeInfos : setTypeInfo(ti) /\ UNCHANGED loopVars
    \/ \E a \in GetItemArgs : getItemCall(a[1], a[2]) /\ UNCHANGED loopVars
    \/ \E arr \in GetItemsArgs : getItemsCall(arr) /\ UNCHANGED loopVars
    \/ \E names \in GetArgs : getCombined(names) /\ UNCHANGED loopVars
    \/ getTypes /\ UNCHANGED loopVars

SpecQuery == Init /\ [][NextQuery]_vars

----------------------------------------------------------------------------
(* Every operation of the context called in any order, the generic setter    *)
(* with mappings that name the url, a pagination field, or both              *)

PaginationFields == {"paginate", "curPage", "maxPage", "pageUrl", "paginationBaseUrl"}

AnyParams ==
    UrlParams
    \cup {[curPage |-> MaxCurPage], [paginate |-> FALSE],
          [maxPage |-> 0, pageUrl |-> Str(<<"p", "/">>)],
          [paginationBaseUrl |-> Str(<<"/">>), CURRENT_URL |-> Str(<<"/">>)]}

\* every operation but the generic setter
NextOperations ==
    \/ setData(Store1) /\ UNCHANGED loopVars
    \/ setTypeInfo(TypeInfo1) /\ UNCHANGED loopVars
    \/ setSettings(Settings1) /\ UNCHANGED loopVars
    \/ getCombined(<<TA>>) /\ UNCHANGED loopVars
    \/ getItemCall(Str(TA), Str(K1)) /\ UNCHANGED loopVars
    \/ getItemsCall(Arr(<<Rel(TB, K1)>>)) /\ UNCHANGED loopVars
    \/ getTypes /\ UNCHANGED loopVars
    \/ \E pageNum \in 1..MaxRenderLen : getPageUrl(pageNum) /\ UNCHANGED loopVars
    \/ getCurPage /\ UNCHANGED loopVars
    \/ getMaxPage /\ UNCHANGED loopVars
    \/ getCurrentUrl /\ UNCHANGED loopVars
    \/ \E key \in SettingKeys : getSetting(key) /\ UNCHANGED loopVars
    \/ \E array \in RandomArgs : randomElement(array) /\ UNCHANGED loopVars
    \/ shouldPaginate /\ UNCHANGED loopVars
    \/ init /\ UNCHANGED loopVars
    \/ curPage < MaxCurPage /\ increasePage /\ UNCHANGED loopVars
    \/ \E n \in {0, MaxRenderLen}, pageName \in PageNames :
           paginateCall(DataOf(n), MaxRenderLen, pageName) /\ UNCHANGED loopVars

NextContext ==
    \/ NextOperations
    \/ \E params \in AnyParams : setParams(params) /\ UNCHANGED loopVars

SpecContext == Init /\ [][NextContext]_vars

\* every operation of the context, the generic setter assigning the url only
NextPass ==
    \/ NextOperations
    \/ \E params \in UrlParams : setParams(params) /\ UNCHANGED loopVars

SpecPass == Init /\ [][NextPass]_vars

----------------------------------------------------------------------------
(* get called in any order while builds replace the store, the type metadata *)
(* and the settings and pages are initialised, with the clock held fixed     *)

NextCache ==
    \/ \E d \in Stores : setData(d) /\ UNCHANGED loopVars
    \/ \E ti \in TypeInfos : setTypeInfo(ti) /\ UNCHANGED loopVars
    \/ \E st \in SettingsTables : setSettings(st) /\ UNCHANGED loopVars
    \/ init /\ UNCHANGED loopVars
    \/ \E names \in GetArgs : getCombined(names) /\ UNCHANGED loopVars

SpecCache == Init /\ [][NextCache]_vars

----------------------------------------------------------------------------
(* The rendering loop of a paginated page: init(), then render the template   *)
(* (which calls paginate once), increasePage(), and again while               *)
(* shouldPaginate()                                                           *)

LoopCap == MaxLen + 2

InitLoop ==
    /\ InitContext
    /\ InitObserved
    /\ pc = "start"
    /\ loopArgs \in [n : 0..MaxLen, perPage : 1..MaxPerPage]
    /\ rendered = 0
    /\ renders = EmptyMap

LoopInit ==
    /\ pc = "start"
    /\ init
    /\ pc' = "render"
    /\ UNCHANGED <<loopArgs, rendered, renders>>

LoopRender ==
    /\ pc = "render"
    /\ paginateCall(DataOf(loopArgs.n), loopArgs.perPage, Undefined)
    /\ pc' = IF PaginateGuard THEN "failed" ELSE "inc"
    /\ rendered' = IF PaginateGuard THEN rendered ELSE rendered + 1
    /\ UNCHANGED <<loopArgs, renders>>

LoopIncrease ==
    /\ pc = "inc"
    /\ curPage < LoopCap
    /\ increasePage
    /\ pc' = "test"
    /\ UNCHANGED <<loopArgs, rendered, renders>>

LoopTest ==
    /\ pc = "test"
    /\ shouldPaginate
    /\ pc' = IF ShouldPaginate THEN "render" ELSE "done"
    /\ UNCHANGED <<loopArgs, rendered, renders>>

NextLoop == LoopInit \/ LoopRender \/ LoopIncrease \/ LoopTest

SpecLoop == InitLoop /\ [][NextLoop]_vars /\ WF_vars(NextLoop)

----------------------------------------------------------------------------
(* Page renders against one context.  Before a page is rendered the          *)
(* generator calls init() and assigns the page's url; the page's template    *)
(* calls paginate once and then getPageUrl.  The renders run one after the   *)
(* other (serialized) or with their steps interleaved.                       *)

RenderIds == {1, 2}
OtherRender(p) == 3 - p
RenderSizes == 1..MaxRenderLen

NoOutcome == [raised |-> FALSE, slice |-> Arr(<<>>), maxPage |-> -1, baseUrl |-> Null,
              pageUrl |-> Null]

InitRenders ==
    /\ InitContext
    /\ InitObserved
    /\ pc = "idle"
    /\ loopArgs = [n |-> 0, perPage |-> 1]
    /\ rendered = 0
    /\ renders \in [RenderIds -> [pc : {"init"}, url : Urls, n : 0..MaxRenderLen,
                                  perPage : RenderSizes, live : {FALSE},
                                  out : {NoOutcome}]]

RenderInit(p) ==
    /\ renders[p].pc = "init"
    /\ init
    /\ renders' = [q \in RenderIds |->
                      [renders[q] EXCEPT !.live = FALSE,
                                         !.pc = IF q = p THEN "url" ELSE @]]
    /\ UNCHANGED <<pc, loopArgs, rendered>>

RenderUrl(p) ==
    /\ renders[p].pc = "url"
    /\ setParams([CURRENT_URL |-> renders[p].url])
    /\ renders' = [renders EXCEPT ![p].pc = "paginate"]
    /\ UNCHANGED <<pc, loopArgs, rendered>>

RenderPaginate(p) ==
    /\ renders[p].pc = "paginate"
    /\ paginateCall(DataOf(renders[p].n), renders[p].perPage, Undefined)
    /\ renders' = [renders EXCEPT
                      ![p].pc = IF IsRaise(ret') THEN "failed" ELSE "pageurl",
                      ![p].live = ~IsRaise(ret'),
                      ![p].out = [raised |-> IsRaise(ret'), slice |-> ret'[2],
                                  maxPage |-> maxPage', baseUrl |-> paginationBaseUrl',
                                  pageUrl |-> Null]]
    /\ UNCHANGED <<pc, loopArgs, rendered>>

RenderPageUrl(p) ==
    /\ renders[p].pc = "pageurl"
    /\ getPageUrl(2)
    /\ renders' = [renders EXCEPT ![p].pc = "done", ![p].out.pageUrl = ret'[2]]
    /\ UNCHANGED <<pc, loopArgs, rendered>>

RenderStep(p) ==
    \/ RenderInit(p)
    \/ RenderUrl(p)
    \/ RenderPaginate(p)
    \/ RenderPageUrl(p)

RenderEnded(p) == renders[p].pc \in {"done", "failed"}

\* serialized: a render starts when every render before it has ended
NextSerial == \E p \in RenderIds : (\A q \in RenderIds : q < p => RenderEnded(q)) /\ RenderStep(p)

SpecSerial == InitRenders /\ [][NextSerial]_vars

\* interleaved: any render takes its next step
NextRace == \E p \in RenderIds : RenderStep(p)

SpecRace == InitRenders /\ [][NextRace]_vars

----------------------------------------------------------------------------
(* Properties of pagination *)

\* the query functions handed to templates
QueryFunctions == {"getItem", "getItems", "get", "getTypes"}


\* C1: paginate raises the pagination conflict exactly when, at the call,
\* curPage is 1 and pagination is already active; init() leaves pagination
\* inactive and no call other than paginate activates it, so the first paginate
\* after init() does not raise, and a call on page 2 or later does not raise.
C1_ConflictIff ==
    [][ /\ op'.name = "paginate" =>
              /\ IsRaise(ret') <=> (curPage = 1 /\ paginate = TRUE)
              /\ IsRaise(ret') => ret' = Raise(PaginationConflict)
        /\ op'.name = "init" => paginate' = FALSE
        /\ (op'.name # "paginate" /\ paginate = FALSE) => paginate' = FALSE ]_vars

\* a second paginate on page 1 has raised
C1_Witness == op.name = "paginate" /\ IsRaise(ret) /\ curPage = 1 /\ paginate = TRUE

\* the elements of d at offsets from (inclusive) up to to (exclusive)
ElementsBetween(d, from, to) ==
    IF from >= to THEN <<>> ELSE [i \in 1..(to - from) |-> d[from + i]]

\* C9: a paginate that does not raise returns the elements of data at offsets
\* perPage*(c-1) up to but excluding min(perPage*c, n), in order, and sets maxPage
\* to ceil(n / perPage); for n = 12, perPage = 5: five items and maxPage 3 on
\* page 1, the remaining two items on page 3.
C9_SliceAndMaxPage ==
    (op.name = "paginate" /\ ~IsRaise(ret)) =>
        LET d == op.data
            n == Len(op.data)
            pp == op.perPage
            c == curPage
        IN  /\ ret = Returned(Arr(ElementsBetween(d, pp * (c - 1), Min(pp * c, n))))
            /\ maxPage * pp >= n
            /\ (maxPage - 1) * pp < n
            /\ maxPage >= 0
            /\ (n = 12 /\ pp = 5 /\ c = 1) =>
                   (ret = Returned(Arr(<<1, 2, 3, 4, 5>>)) /\ maxPage = 3)
            /\ (n = 12 /\ pp = 5 /\ c = 3) => ret = Returned(Arr(<<11, 12>>))

\* page 3 of 12 elements, 5 per page, has been sliced
C9_Witness ==
    /\ op.name = "paginate" /\ ~IsRaise(ret)
    /\ Len(op.data) = 12 /\ op.perPage = 5 /\ curPage = 3
    /\ ret = Returned(Arr(<<11, 12>>))

\* the number of renders the loop makes for n elements, perPage a page
ExpectedRenders(n, perPage) ==
    IF n = 0 THEN 1 ELSE CHOOSE m \in 1..n : m * perPage >= n /\ (m - 1) * perPage < n

\* C10: the rendering loop terminates, having rendered pages 1..ceil(n/perPage)
\* (one render when n = 0), without a pagination conflict; shouldPaginate()
\* is curPage <= maxPage, and it is false when the loop stops.
C10_LoopTerminates ==
    /\ <>(pc = "done")
    /\ [](pc # "failed")
    /\ [](op.name = "shouldPaginate" => (ret = Returned(Bool(TRUE)) <=> (1 <= curPage /\ curPage <= maxPage)))
    /\ [](pc = "done" =>
             /\ rendered = ExpectedRenders(loopArgs.n, loopArgs.perPage)
             /\ ret = Returned(Bool(FALSE))
             /\ (loopArgs.n > 0 => curPage = maxPage + 1))

\* the loop over 12 elements, 5 a page, has stopped after three renders
C10_Witness ==
    pc = "done" /\ loopArgs.n = 12 /\ loopArgs.perPage = 5 /\ rendered = 3 /\ curPage = 4

\* a pageName is handed to paginate by the step
SuppliesPageName == op'.name = "paginate" /\ ~Falsy(op'.pageName)

\* C16: after a successful paginate, getPageUrl(1) returns the base url
\* unchanged and getPageUrl(n) for n # 1 returns base url + page-url segment
\* + n + "/"; the segment is "page-" as long as no paginate call since init()
\* was handed a pageName.
C16_PageUrls ==
    /\ [](op.name = "getPageUrl" /\ paginate = TRUE =>
              ret = Returned(IF op.pageNum = 1 THEN paginationBaseUrl
                             ELSE Str(Chars(paginationBaseUrl) \o Chars(pageUrl)
                                      \o NumStr(op.pageNum) \o <<"/">>)))
    /\ [][/\ op'.name = "init" => pageUrl' = PageDefault
          /\ (pageUrl = PageDefault /\ ~SuppliesPageName) => pageUrl' = PageDefault]_vars

\* getPageUrl(11) has returned "/a/page-11/" on a later page of a pagination
C16_Witness ==
    /\ op.name = "getPageUrl" /\ op.pageNum = 11
    /\ paginate = TRUE /\ curPage > 1
    /\ ret = Returned(Str(<<"/", "a", "/", "p", "a", "g", "e", "-", "1", "1", "/">>))

\* C17: the base url is captured once per pass: it is unset exactly until the
\* first successful paginate after init(), which sets it to the CURRENT_URL in
\* force at that call; after that no paginate, increasePage or assignment of
\* CURRENT_URL changes it until the next init(), so getPageUrl(1) keeps
\* returning the captured value.
C17_BaseUrlCapturedOnce ==
    /\ [](paginationBaseUrl = Null <=> paginate = FALSE)
    /\ [](op.name = "getPageUrl" /\ op.pageNum = 1 => ret = Returned(paginationBaseUrl))
    /\ [][/\ op'.name = "init" => paginationBaseUrl' = Null
          /\ (op'.name = "paginate" /\ ~IsRaise(ret') /\ paginationBaseUrl = Null)
                 => paginationBaseUrl' = CURRENT_URL
          /\ (op'.name # "init" /\ paginationBaseUrl # Null)
                 => paginationBaseUrl' = paginationBaseUrl]_vars

\* a paginate call on a later page has succeeded after CURRENT_URL was changed,
\* and the base url is still the one captured before the change
C17_Witness ==
    /\ op.name = "paginate" /\ ~IsRaise(ret)
    /\ curPage > 1
    /\ paginationBaseUrl # Null /\ paginationBaseUrl # CURRENT_URL

C19_PaginationInvariants ==
    /\ [](curPage \in Nat /\ curPage >= 1)
    /\ [](paginate = FALSE <=> (maxPage = -1 /\ paginationBaseUrl = Null))
    /\ [][(paginate = TRUE /\ op'.name # "init") => paginate' = TRUE]_vars

\* a query function has run on a later page of an active pagination of an
\* empty sequence
C19_Witness ==
    /\ op.name \in QueryFunctions
    /\ paginate = TRUE /\ curPage > 1
    /\ maxPage = 0 /\ paginationBaseUrl # Null

----------------------------------------------------------------------------
(* Properties of getItem and getItems *)

\* C2: getItem and getItems never raise: getItem returns the empty item or the
\* item, getItems returns a sequence.
C2_NeverRaise ==
    /\ op.name = "getItem" =>
           (ret = Returned(EmptyItem) \/ (~IsRaise(ret) /\ ret[2][1] = "item"))
    /\ op.name = "getItems" => (~IsRaise(ret) /\ IsArray(ret[2]))

\* the item has a publish_date whose timestamp is at most x
DatedAtMost(item, x) == item.publish_date[1] = "date" /\ item.publish_date[2] <= x

\* C4: for a type of the type-metadata table and a key whose item is in the
\* store, getItem(type, key) returns the item, with _type attached, exactly when
\* the type is oneOff or the item's publish_date is a timestamp of at most
\* now + 60000 ms, and the empty item otherwise.
C4_ReturnedIffPublished ==
    (/\ op.name = "getItem"
     /\ ~Falsy(op.key)
     /\ Chars(op.type) \in DOMAIN typeInfo
     /\ Chars(op.type) \in DOMAIN data
     /\ Chars(op.key) \in DOMAIN data[Chars(op.type)]) =>
        LET t == Chars(op.type)
            k == Chars(op.key)
        IN  IF typeInfo[t].oneOff \/ DatedAtMost(data[t][k], now + 60000)
            THEN ret = Returned(ItemRef(t, k)) /\ data[t][k]._type = Str(t)
            ELSE ret = Returned(EmptyItem)

\* C15: the relation-string form getItem(t + " " + k) returns what the
\* two-argument form getItem(t, k) returns against the same store and type
\* metadata, and a relation string that does not split into exactly two
\* tokens returns the empty item (stated of the calls that return).
C15_RelationForm ==
    (op.name = "getItem" /\ op.key = Undefined /\ op.type[1] = "string" /\ ~IsRaise(ret)) =>
        LET tokens == SplitAll(op.type[2])
        IN  IF Len(tokens) = 2
            THEN ret = getItem(Str(tokens[1]), Str(tokens[2]), data).ret
            ELSE ret = Returned(EmptyItem)

----------------------------------------------------------------------------
(* Properties of get and of the query cache *)

\* C3: get never raises, whatever mix of oneOff and other types it is given,
\* and the pagination conflict is the only error a function raises.
C3_GetCompletes ==
    /\ op.name = "get" => ~IsRaise(ret)
    /\ IsRaise(ret) => ret = Raise(PaginationConflict)

\* the keys of the collection of t that name, at time x, an item with a key not
\* starting with '_' and a publish_date of at most x + 60000 ms
DatedKeys(t, x) ==
    IF t \notin DOMAIN data THEN {}
    ELSE {k \in DOMAIN data[t] : k[1] # "_" /\ DatedAtMost(data[t][k], x + 60000)}

\* the keys of the collection of t in d whose item, at time x, has a key not
\* starting with '_' and a non-empty publish_date that does not parse to a
\* timestamp later than x + 60000 ms
PassingKeys(t, d, x) ==
    IF t \notin DOMAIN d THEN {}
    ELSE {k \in DOMAIN d[t] :
            /\ k[1] # "_"
            /\ d[t][k].publish_date \notin {Undefined, Str(<<>>)}
            /\ ~(d[t][k].publish_date[1] = "date" /\ d[t][k].publish_date[2] > x + 60000)}

\* v is a sequence of exactly the items of type t with the keys in keys, each
\* once, and each of them carries _id and _type in the store d
ExactlyItems(v, t, keys, d) ==
    /\ IsArray(v)
    /\ {v[2][i] : i \in 1..Len(v[2])} = {ItemRef(t, k) : k \in keys}
    /\ Len(v[2]) = Cardinality(keys)
    /\ \A k \in keys : d[t][k]._id = Str(k) /\ d[t][k]._type = Str(t)

C6_SameResultAgain ==
    [][ (op'.name = "get" /\ op'.names \in DOMAIN lastRet) =>
            (~IsRaise(ret') /\ ret' = lastRet[op'.names]) ]_vars

C8_OwnEntryOnly ==
    [][ op'.name = "get" =>
            LET key == Join(op'.names)
            IN  /\ \A k \in DOMAIN cachedData \ {key} :
                       k \in DOMAIN cachedData' /\ cachedData'[k] = cachedData[k]
                /\ DOMAIN cachedData' \subseteq DOMAIN cachedData \cup {key}
                /\ IF key \in DOMAIN cachedData
                   THEN ret' = Returned(cachedData[key])
                   ELSE ret' = CombineFrom(op'.names, 1, Arr(<<>>), data).ret
                /\ Join(<<TA, TB>>) # Join(<<TB, TA>>) ]_vars

\* the cache holds different entries for ("a","b") and ("b","a")
C8_Witness ==
    /\ op.name = "get"
    /\ Join(<<TA, TB>>) \in DOMAIN cachedData
    /\ Join(<<TB, TA>>) \in DOMAIN cachedData
    /\ cachedData[Join(<<TA, TB>>)] # cachedData[Join(<<TB, TA>>)]


\* every cache entry is what an uncached get of its argument list would return
\* from the store and the type metadata as they are
Coherent ==
    \A names \in GetArgs :
        Join(names) \in DOMAIN cachedData =>
            Returned(cachedData[Join(names)]) = CombineFrom(names, 1, Arr(<<>>), data).ret

\* C20 as stated: with the clock held fixed, after any sequence of setData,
\* setTypeInfo, setSettings, init and get calls every cache entry equals what
\* a fresh, uncached get for its key would produce from the current store and
\* the current type metadata.
C20_CacheCoherent == Coherent

\* C20 amended: with the clock held fixed, the cache is coherent after every
\* setData, and setData, setSettings, init and get leave a coherent cache
\* coherent; only setTypeInfo, which leaves the cache alone, can break it.
C20_CoherentButForTypeInfo ==
    /\ [](op.name = "setData" => Coherent)
    /\ [][(Coherent /\ op'.name # "setTypeInfo") => Coherent']_vars

\* the cache holds the sequence of a combined get and the object of a oneOff
\* type, both as a fresh get would compute them
C20_Witness ==
    /\ op.name = "get"
    /\ Join(<<TA, TB>>) \in DOMAIN cachedData
    /\ Len(cachedData[Join(<<TA, TB>>)][2]) > 1
    /\ TS \in DOMAIN cachedData /\ cachedData[TS] = Obj(TS)
    /\ settings # EmptyMap
    /\ Coherent

----------------------------------------------------------------------------
(* Properties of page renders against one context *)

\* the pagination state as init() leaves it
PaginationUnset ==
    /\ paginate = FALSE
    /\ curPage = 1
    /\ maxPage = -1
    /\ pageUrl = PageDefault
    /\ paginationBaseUrl = Null

\* C11: when page renders are serialized, each preceded by init() and the
\* assignment of its own url, every render starts with the pagination state
\* at its unset defaults, its one paginate call never raises the conflict,
\* and the base url it captures is the url of the page being rendered.
C11_SerializedRenders ==
    \A p \in RenderIds :
        /\ renders[p].pc \in {"url", "paginate"} => PaginationUnset
        /\ renders[p].pc = "paginate" => CURRENT_URL = renders[p].url
        /\ renders[p].pc # "failed" /\ ~renders[p].out.raised
        /\ renders[p].pc \in {"pageurl", "done"} => renders[p].out.baseUrl = renders[p].url

\* the second page, with a url of its own, has been rendered after the first
C11_Witness ==
    /\ renders # EmptyMap
    /\ renders[1].pc = "done" /\ renders[2].pc = "done"
    /\ renders[1].url # renders[2].url
    /\ renders[2].out.baseUrl = renders[2].url

\* C12: when the steps of two page renders are interleaved on one context,
\* a render's paginate call raises the conflict exactly when the other
\* render has paginated since the last init(), and otherwise it captures
\* as base url whatever url is in force, its own or the other render's;
\* C12_Witness is the reachable state in which both have happened.
C12_InterleavedRendersBleed ==
    [][\A p \in RenderIds :
          (renders[p].pc = "paginate" /\ renders'[p].pc # "paginate") =>
              /\ renders'[p].out.raised <=> renders[OtherRender(p)].live
              /\ renders'[p].pc = "failed" <=> renders[OtherRender(p)].live
              /\ ~renders'[p].out.raised => renders'[p].out.baseUrl = CURRENT_URL]_vars

\* render 1 captured the url of render 2 as its base url, and render 2's
\* paginate call raised the conflict
C12_Witness ==
    /\ renders # EmptyMap
    /\ renders[1].url # renders[2].url
    /\ ~renders[1].out.raised /\ renders[1].out.baseUrl = renders[2].url
    /\ renders[2].pc = "failed" /\ renders[2].out.raised


----------------------------------------------------------------------------
(* Frame properties *)

\* C13: no query function mutates the content store: a getItem, getItems,
\* get or getTypes call leaves every item of the store with the fields and
\* values it had when the store was passed to setData.
C13_QueriesLeaveStore == [][op'.name \in QueryFunctions => data' = data]_vars


PaginationChangers == {"init", "paginate", "increasePage"}

PaginationUnchanged == UNCHANGED <<paginate, curPage, maxPage, pageUrl, paginationBaseUrl>>

\* C14 as stated: the pagination fields are changed only by init(), paginate()
\* and increasePage(); every other operation, the generic setter included,
\* leaves all five unchanged.
C14_OnlyPaginationChanges ==
    [][op'.name \notin PaginationChangers => PaginationUnchanged]_vars

\* C14 amended: every other operation leaves the five pagination fields
\* unchanged, the generic setter only when its mapping names none of them.
C14_SetterApart ==
    [][(/\ op'.name \notin PaginationChangers
        /\ ~(op'.name = "setParams" /\ DOMAIN op'.params \cap PaginationFields # {}))
       => PaginationUnchanged]_vars

\* the setter has assigned the url, on a later page of an active pagination,
\* and left the pagination fields alone
C14_Witness ==
    /\ op.name = "setParams"
    /\ DOMAIN op.params = {"CURRENT_URL"}
    /\ CURRENT_URL = op.params.CURRENT_URL
    /\ paginate = TRUE /\ curPage > 1 /\ paginationBaseUrl # CURRENT_URL

====
